---- MODULE Spec2Model ----
(***************************************************************************)
(* Gym-management platform: the session/reservation (scheduling) service   *)
(* behind the API gateway.                                                 *)
(*                                                                         *)
(* The store is the PostgreSQL schema of initDatabase (tables sessions and *)
(* reservations).  CreateSession and GetSession are the Go handlers of the *)
(* session service.  The gateway handlers of session.routes.js translate a *)
(* REST request into the RPC request.  The RPCs the gateway calls whose    *)
(* handlers are in no source file at hand (UpdateSession, DeleteSession,   *)
(* CreateReservation, CancelReservation) follow sections 4 and 5 of the    *)
(* specification: a conditional update under the session's row lock        *)
(* inside one transaction, on top of the schema of initDatabase.           *)
(*                                                                         *)
(* The gateway's other mounts (payments, subscriptions, notifications),    *)
(* the GraphQL resolvers of the payment service, the Kafka consumer of the *)
(* notification service and the REST controllers of the user service are   *)
(* modelled after it, each with a specification of its own over the        *)
(* documents of mongodb and the messages of kafka.                         *)
(***************************************************************************)
EXTENDS Integers, FiniteSets, Sequences, TLC

\* ------------------------------------------------------------------ bounds
MaxRes == 3        \* reservation ids handed out by the SERIAL column
MaxCap == 2        \* largest capacity a client asks for

Procs == {"p1", "p2"}          \* concurrent handler invocations
Users == {"A", "B", "adm"}     \* subjects of the bearer tokens
Members == {"A", "B"}          \* the users who reserve
Times == {0, 1}                \* the clock and the times of a session
SessionIds == {1}              \* ids the SERIAL column of sessions hands out
ResIds == 1..MaxRes
\* capacities a client may send: a negative one, zero and the valid ones
CapInputs == (-1)..MaxCap

\* the role of a user, as the identity collaborator knows it
Role(u) == IF u = "adm" THEN "admin" ELSE "member"

VARIABLES
  sessions,      \* table sessions: id -> row
  reservations,  \* table reservations: id -> row
  nextSid,       \* sequence behind sessions.id
  nextRid,       \* sequence behind reservations.id
  lock,          \* session id -> holder of the row lock ("" when free)
  now,           \* the clock
  procs,         \* handler invocation -> its position, arguments and result
  mongodb,       \* the MongoDB collections of the payment, notification and
                 \* user services: collection -> (id -> document)
  kafka          \* the broker: the messages of the topics the notification
                 \* service subscribes to, and the consumer group's position

vars == <<sessions, reservations, nextSid, nextRid, lock, now, procs, mongodb, kafka>>

\* a step of the session service or of the gateway's session router leaves
\* the other services alone
OtherServices == UNCHANGED <<mongodb, kafka>>
\* no document and no message yet
NoDocuments ==
  [plans |-> <<>>, subscriptions |-> <<>>, payments |-> <<>>,
   notifications |-> <<>>, users |-> <<>>, oids |-> 0]
NoMessages == [topic |-> <<>>, offset |-> 0]

\* ------------------------------------------------------------- the schema
\* reserved_spots INT DEFAULT 0
DefaultReservedSpots == 0
\* is_cancelled BOOLEAN DEFAULT FALSE
DefaultIsCancelled == FALSE
\* status VARCHAR(50) DEFAULT 'confirmed'
DefaultStatus == "confirmed"

\* rows of reservations of one session
RowsOf(rs, s) == {r \in DOMAIN rs : rs[r].session_id = s}
\* the confirmed (active) ones
Confirmed(rs, s) == {r \in RowsOf(rs, s) : rs[r].status = "confirmed"}
\* the confirmed ones of one user
ConfirmedOf(rs, s, u) == {r \in Confirmed(rs, s) : rs[r].user_id = u}

\* a mutated constraint: nothing is unique
UniqueViolationNone(rs, s, u) == FALSE
\* UNIQUE(session_id, user_id): an INSERT of (s, u) is rejected when any row
\* of the pair exists, whatever its status
UniqueViolation(rs, s, u) ==
  \E r \in DOMAIN rs : rs[r].session_id = s /\ rs[r].user_id = u

\* a mutated foreign key: the rows of the session stay
CascadeDeleteNone(rs, s) == rs
\* session_id REFERENCES sessions(id) ON DELETE CASCADE
CascadeDelete(rs, s) == [r \in (DOMAIN rs) \ RowsOf(rs, s) |-> rs[r]]

\* ------------------------------------------------------ handler invocations
Idle == [op |-> "none", pc |-> "idle", sid |-> 0, uid |-> "", rid |-> 0,
         code |-> "none"]

\* the invocation p ends with the status code c; what stays of it is the
\* operation and the code
Finish(p, op, c) ==
  procs' = [procs EXCEPT ![p] = [op |-> op, pc |-> "idle", sid |-> 0, uid |-> "",
                                 rid |-> 0, code |-> c]]

\* the invocation p goes on at pc
Goto(p, op, pc, s, u, r) ==
  procs' = [procs EXCEPT ![p] = [op |-> op, pc |-> pc, sid |-> s, uid |-> u,
                                 rid |-> r, code |-> "none"]]

Init ==
  /\ sessions = <<>>
  /\ reservations = <<>>
  /\ nextSid = 1
  /\ nextRid = 1
  /\ lock = [s \in SessionIds |-> ""]
  /\ now = 0
  /\ procs = [p \in Procs |-> Idle]
  /\ mongodb = NoDocuments
  /\ kafka = NoMessages

\* --------------------------------------------------------- CreateSession
\* the fields of a request; a field the client leaves out arrives as the
\* zero value of its type ("" or 0)
ValidRequests ==
  [title : {"t"}, coach_id : {"c"}, capacity : 1..MaxCap,
   start_time : {0}, end_time : Times, location : {"g"},
   session_type : {"y"}, difficulty_level : {"d"}]
BaseRequest == CHOOSE req \in ValidRequests : req.capacity = 1 /\ req.end_time = 1
CreateRequests ==
  ValidRequests
    \cup {[BaseRequest EXCEPT !.capacity = c] : c \in CapInputs}
    \cup {[BaseRequest EXCEPT !.title = ""], [BaseRequest EXCEPT !.coach_id = ""],
          [BaseRequest EXCEPT !.location = ""]}

\* a mutated validation: the capacity is not looked at
CreateSessionInvalidNoCap(req) ==
  \/ req.title = "" \/ req.coach_id = ""
  \/ req.location = "" \/ req.session_type = "" \/ req.difficulty_level = ""
\* "Validate request": start_time and end_time are strings whose model is a
\* time, so they are never empty here
CreateSessionInvalid(req) ==
  \/ req.title = "" \/ req.coach_id = "" \/ req.capacity < 1
  \/ req.location = "" \/ req.session_type = "" \/ req.difficulty_level = ""

\* a mutated insert: the capacity is stored as the reserved spots too
NewSessionRowReserved(req) ==
  [title |-> req.title, coach_id |-> req.coach_id, capacity |-> req.capacity,
   reserved_spots |-> req.capacity,
   start_time |-> req.start_time, end_time |-> req.end_time,
   location |-> req.location, session_type |-> req.session_type,
   difficulty_level |-> req.difficulty_level,
   is_cancelled |-> DefaultIsCancelled, updated_at |-> now]
\* the row INSERT INTO sessions stores
NewSessionRow(req) ==
  [title |-> req.title, coach_id |-> req.coach_id, capacity |-> req.capacity,
   reserved_spots |-> DefaultReservedSpots,
   start_time |-> req.start_time, end_time |-> req.end_time,
   location |-> req.location, session_type |-> req.session_type,
   difficulty_level |-> req.difficulty_level,
   is_cancelled |-> DefaultIsCancelled, updated_at |-> now]

\* "Construct response": the Session the handler returns for the row of id
CreateSessionReply(req, id) ==
  [id |-> id, title |-> req.title, coach_id |-> req.coach_id,
   capacity |-> req.capacity, reserved_spots |-> 0,
   start_time |-> req.start_time, end_time |-> req.end_time,
   location |-> req.location, session_type |-> req.session_type,
   difficulty_level |-> req.difficulty_level, is_cancelled |-> FALSE]

CreateSession(p, req) ==
  /\ procs[p].pc = "idle"
  /\ IF CreateSessionInvalid(req)
     THEN /\ Finish(p, "CreateSession", "InvalidArgument")
          /\ UNCHANGED <<sessions, nextSid>>
     ELSE /\ nextSid \in SessionIds
          /\ sessions' = (nextSid :> NewSessionRow(req)) @@ sessions
          /\ nextSid' = nextSid + 1
          /\ Finish(p, "CreateSession", "OK")
  /\ UNCHANGED <<reservations, nextRid, lock, now>>

\* ------------------------------------------------------------ GetSession
\* the Session scanned from SELECT ... FROM sessions WHERE id = s
ScannedSession(s, row) ==
  [id |-> s, title |-> row.title, coach_id |-> row.coach_id,
   capacity |-> row.capacity, reserved_spots |-> row.reserved_spots,
   start_time |-> row.start_time, end_time |-> row.end_time,
   location |-> row.location, session_type |-> row.session_type,
   difficulty_level |-> row.difficulty_level, is_cancelled |-> row.is_cancelled]
\* a mutated read: the counters are not read from the row
GetSessionReplyNoCounters(s) ==
  [ScannedSession(s, sessions[s]) EXCEPT !.reserved_spots = 0, !.is_cancelled = FALSE]
\* what GetSession returns for a stored id
GetSessionReply(s) == ScannedSession(s, sessions[s])
GetSession(p, s) ==
  /\ procs[p].pc = "idle"
  /\ Finish(p, "GetSession", IF s \in DOMAIN sessions THEN "OK" ELSE "NotFound")
  /\ UNCHANGED <<sessions, reservations, nextSid, nextRid, lock, now>>

\* --------------------------------------------------------- UpdateSession
\* JavaScript truthiness of a number of the request body
Truthy(c) == c # 0

\* the bodies of PUT /api/sessions/:id; a field that is left out is {}
UpdateBodies ==
  [capacity : {{}} \cup {{c} : c \in CapInputs},
   end_time : {{}}, is_cancelled : {{}}]
    \cup [capacity : {{}, {1}}, end_time : {{}}, is_cancelled : {{TRUE}, {FALSE}}]

\* a mutated translation: a flag that is left out is sent as false
GwUpdateRequestDefaults(s, body) ==
  [session_id |-> s,
   capacity |-> {c \in body.capacity : Truthy(c)},
   end_time |-> body.end_time,
   is_cancelled |-> IF body.is_cancelled = {} THEN {FALSE} ELSE body.is_cancelled]
\* router.put('/:id'): capacity: capacity ? parseInt(capacity) : undefined,
\* the other fields as they come
GwUpdateRequest(s, body) ==
  [session_id |-> s,
   capacity |-> {c \in body.capacity : Truthy(c)},
   end_time |-> body.end_time,
   is_cancelled |-> body.is_cancelled]


\* the value of a field after a partial update
Patched(old, field) == IF field = {} THEN old ELSE CHOOSE x \in field : TRUE

\* a mutated guard: a capacity below the reserved spots is accepted
ShrinksBelowNever(row, req) == FALSE
\* the resulting capacity is below the reserved spots
ShrinksBelow(row, req) == Patched(row.capacity, req.capacity) < row.reserved_spots

\* the row after the update: the provided fields, and updated_at
UpdatedRow(row, req) ==
  [row EXCEPT !.capacity = Patched(row.capacity, req.capacity),
              !.end_time = Patched(row.end_time, req.end_time),
              !.is_cancelled = Patched(row.is_cancelled, req.is_cancelled),
              !.updated_at = now]

\* one UPDATE statement; it waits for the row lock
UpdateSession(p, req) ==
  LET s == req.session_id IN
  /\ procs[p].pc = "idle"
  /\ IF s \notin DOMAIN sessions
     THEN /\ Finish(p, "UpdateSession", "NotFound")
          /\ UNCHANGED sessions
     ELSE /\ lock[s] = ""
          /\ IF ShrinksBelow(sessions[s], req)
             THEN /\ Finish(p, "UpdateSession", "FailedPrecondition")
                  /\ UNCHANGED sessions
             ELSE /\ sessions' = [sessions EXCEPT ![s] = UpdatedRow(sessions[s], req)]
                  /\ Finish(p, "UpdateSession", "OK")
  /\ UNCHANGED <<reservations, nextSid, nextRid, lock, now>>

\* --------------------------------------------------------- DeleteSession
\* one DELETE statement; the foreign key removes the reservations
DeleteSession(p, s) ==
  /\ procs[p].pc = "idle"
  /\ IF s \notin DOMAIN sessions
     THEN /\ Finish(p, "DeleteSession", "NotFound")
          /\ UNCHANGED <<sessions, reservations>>
     ELSE /\ lock[s] = ""
          /\ sessions' = [x \in (DOMAIN sessions) \ {s} |-> sessions[x]]
          /\ reservations' = CascadeDelete(reservations, s)
          /\ Finish(p, "DeleteSession", "OK")
  /\ UNCHANGED <<nextSid, nextRid, lock, now>>

\* ----------------------------------------------------- CreateReservation
\* router.post('/'): const userId = user_id || req.user.userId
GwReservationUser(body_user_id, tok) ==
  IF body_user_id # "" THEN body_user_id ELSE tok

\* a mutated check: no session is closed for reservations
ClosedNever(row) == FALSE
\* the session is cancelled or its end time has passed
Closed(row) == row.is_cancelled \/ row.end_time < now

\* reservations whose insert may still be under way
InFlightInserts ==
  Cardinality({q \in Procs : procs[q].op = "CreateReservation"
                             /\ procs[q].pc # "idle"})

\* a mutated order: the full session is reported before the caller's own
\* reservation
CreateReservationCapacityFirst(p, s, u) ==
  /\ procs[p].pc = "idle"
  /\ nextRid + InFlightInserts <= MaxRes
  /\ IF s \notin DOMAIN sessions
     THEN Finish(p, "CreateReservation", "NotFound")
     ELSE IF Closed(sessions[s])
     THEN Finish(p, "CreateReservation", "FailedPrecondition")
     ELSE IF sessions[s].reserved_spots >= sessions[s].capacity
     THEN Finish(p, "CreateReservation", "ResourceExhausted")
     ELSE IF ConfirmedOf(reservations, s, u) # {}
     THEN Finish(p, "CreateReservation", "AlreadyExists")
     ELSE Goto(p, "CreateReservation", "wait", s, u, 0)
  /\ UNCHANGED <<sessions, reservations, nextSid, nextRid, lock, now>>
\* steps 1 to 3, read before the transaction takes the row lock
CreateReservation(p, s, u) ==
  /\ procs[p].pc = "idle"
  /\ nextRid + InFlightInserts <= MaxRes
  /\ IF s \notin DOMAIN sessions
     THEN Finish(p, "CreateReservation", "NotFound")
     ELSE IF Closed(sessions[s])
     THEN Finish(p, "CreateReservation", "FailedPrecondition")
     ELSE IF ConfirmedOf(reservations, s, u) # {}
     THEN Finish(p, "CreateReservation", "AlreadyExists")
     ELSE Goto(p, "CreateReservation", "wait", s, u, 0)
  /\ UNCHANGED <<sessions, reservations, nextSid, nextRid, lock, now>>

\* a mutated admission: a full session still admits
AdmitCodeNoLimit(s) ==
  IF s \notin DOMAIN sessions THEN "NotFound"
  ELSE IF Closed(sessions[s]) THEN "FailedPrecondition"
  ELSE "OK"
\* the outcome of UPDATE sessions SET reserved_spots = reserved_spots + 1
\* WHERE id = s AND reserved_spots < capacity (and the session is open)
AdmitCode(s) ==
  IF s \notin DOMAIN sessions THEN "NotFound"
  ELSE IF Closed(sessions[s]) THEN "FailedPrecondition"
  ELSE IF sessions[s].reserved_spots >= sessions[s].capacity THEN "ResourceExhausted"
  ELSE "OK"

\* step 4 and the first half of step 5: the conditional update takes the
\* row lock of the session; its effect is pending until the commit
CR_Admit(p) ==
  LET s == procs[p].sid IN
  /\ procs[p].op = "CreateReservation" /\ procs[p].pc = "wait"
  /\ lock[s] = ""
  /\ IF AdmitCode(s) = "OK"
     THEN /\ lock' = [lock EXCEPT ![s] = p]
          /\ Goto(p, "CreateReservation", "w1", s, procs[p].uid, 0)
     ELSE /\ Finish(p, "CreateReservation", AdmitCode(s))
          /\ UNCHANGED lock
  /\ UNCHANGED <<sessions, reservations, nextSid, nextRid, now>>

\* the second half of step 5: INSERT INTO reservations; the row is pending
\* until the commit; the unique constraint rejects a second row of the pair
CR_Insert(p) ==
  LET s == procs[p].sid
      u == procs[p].uid IN
  /\ procs[p].op = "CreateReservation" /\ procs[p].pc = "w1"
  /\ IF UniqueViolation(reservations, s, u)
     THEN /\ lock' = [lock EXCEPT ![s] = ""]
          /\ Finish(p, "CreateReservation", "AlreadyExists")
          /\ UNCHANGED nextRid
     ELSE /\ Goto(p, "CreateReservation", "w2", s, u, 0)
          /\ UNCHANGED <<lock, nextRid>>
  /\ UNCHANGED <<sessions, reservations, nextSid, now>>

\* ----------------------------------------------------- CancelReservation
\* router.delete('/:id'): reservation_id from the path, user_id from the token
GwCancelRequest(r, tok) ==
  [reservation_id |-> r, user_id |-> tok]

\* a mutated check: every caller may cancel
MayCancelAnyone(row, u) == TRUE
\* the caller may cancel the reservation
MayCancel(row, u) == row.user_id = u \/ Role(u) = "admin"

\* the checks, read before the transaction takes the row lock
CancelReservation(p, req) ==
  LET r == req.reservation_id
      u == req.user_id IN
  /\ procs[p].pc = "idle"
  /\ IF r \notin DOMAIN reservations
     THEN Finish(p, "CancelReservation", "NotFound")
     ELSE IF ~MayCancel(reservations[r], u)
     THEN Finish(p, "CancelReservation", "PermissionDenied")
     ELSE IF reservations[r].status = "cancelled"
     THEN Finish(p, "CancelReservation", "FailedPrecondition")
     ELSE Goto(p, "CancelReservation", "wait", reservations[r].session_id, "", r)
  /\ UNCHANGED <<sessions, reservations, nextSid, nextRid, lock, now>>

\* a mutated guard: the status is not looked at again under the lock
MarkCodeNoStatus(r) ==
  IF r \notin DOMAIN reservations THEN "NotFound" ELSE "OK"
\* the outcome of UPDATE reservations SET status = 'cancelled'
\* WHERE id = r AND status = 'confirmed'
MarkCode(r) ==
  IF r \notin DOMAIN reservations THEN "NotFound"
  ELSE IF reservations[r].status = "cancelled" THEN "FailedPrecondition"
  ELSE "OK"

\* the transaction takes the row lock of the session and marks the
\* reservation; the mark is pending until the commit
Cancel_Mark(p) ==
  LET s == procs[p].sid
      r == procs[p].rid IN
  /\ procs[p].op = "CancelReservation" /\ procs[p].pc = "wait"
  /\ lock[s] = ""
  /\ IF MarkCode(r) = "OK"
     THEN /\ lock' = [lock EXCEPT ![s] = p]
          /\ Goto(p, "CancelReservation", "w1", s, procs[p].uid, r)
     ELSE /\ Finish(p, "CancelReservation", MarkCode(r))
          /\ UNCHANGED lock
  /\ UNCHANGED <<sessions, reservations, nextSid, nextRid, now>>

\* UPDATE sessions SET reserved_spots = reserved_spots - 1; pending
Cancel_Dec(p) ==
  /\ procs[p].op = "CancelReservation" /\ procs[p].pc = "w1"
  /\ Goto(p, "CancelReservation", "w2", procs[p].sid, procs[p].uid, procs[p].rid)
  /\ UNCHANGED <<sessions, reservations, nextSid, nextRid, lock, now>>

\* ------------------------------------------------------ commit and rollback
\* reserved_spots after the pending change d, never below 0
Counted(row, d) ==
  [row EXCEPT !.reserved_spots = IF row.reserved_spots + d < 0 THEN 0
                                 ELSE row.reserved_spots + d]

\* the reservation row a committed insert adds
NewReservationRow(s, u) ==
  [session_id |-> s, user_id |-> u, status |-> DefaultStatus]

\* a mutated sequence: the id of a cancelled row is handed out again
NewReservationIdReused ==
  IF \E r \in DOMAIN reservations : reservations[r].status = "cancelled"
  THEN CHOOSE r \in DOMAIN reservations : reservations[r].status = "cancelled"
  ELSE nextRid
\* id SERIAL PRIMARY KEY: the id of an inserted row is the next of the sequence
NewReservationId == nextRid

\* the store after the pending writes of p without the count
RowsWritten(p) ==
  IF procs[p].op = "CreateReservation"
  THEN (NewReservationId :> NewReservationRow(procs[p].sid, procs[p].uid))
         @@ reservations
  ELSE [reservations EXCEPT ![procs[p].rid].status = "cancelled"]

\* the pending change of reserved_spots
CountWritten(p) ==
  LET s == procs[p].sid
      d == IF procs[p].op = "CreateReservation" THEN 1 ELSE -1 IN
  [sessions EXCEPT ![s] = Counted(sessions[s], d)]

\* COMMIT: both pending writes reach the store in one step
Commit(p) ==
  /\ procs[p].pc = "w2"
  /\ reservations' = RowsWritten(p)
  /\ sessions' = CountWritten(p)
  /\ nextRid' = IF procs[p].op = "CreateReservation" THEN nextRid + 1 ELSE nextRid
  /\ lock' = [lock EXCEPT ![procs[p].sid] = ""]
  /\ Finish(p, procs[p].op, "OK")
  /\ UNCHANGED <<nextSid, now>>

\* the codes of a transaction that does not complete
AbortCodes == {"DeadlineExceeded", "Internal"}

\* a mutated rollback: the row written last stays in the store
AbortKeepsRow(p, c) ==
  /\ procs[p].pc \in {"w1", "w2"}
  /\ reservations' = IF procs[p].pc = "w2" /\ procs[p].op = "CreateReservation"
                     THEN RowsWritten(p) ELSE reservations
  /\ nextRid' = IF procs[p].pc = "w2" /\ procs[p].op = "CreateReservation"
                THEN nextRid + 1 ELSE nextRid
  /\ lock' = [lock EXCEPT ![procs[p].sid] = ""]
  /\ Finish(p, procs[p].op, c)
  /\ UNCHANGED <<sessions, nextSid, now>>
\* ROLLBACK after a storage failure, a timeout or the caller's cancellation:
\* the pending writes are dropped
Abort(p, c) ==
  /\ procs[p].pc \in {"w1", "w2"}
  /\ lock' = [lock EXCEPT ![procs[p].sid] = ""]
  /\ Finish(p, procs[p].op, c)
  /\ UNCHANGED <<sessions, reservations, nextSid, nextRid, now>>

\* ------------------------------------------------------------------ steps
HandleUpdateSession(p, s, body) == UpdateSession(p, GwUpdateRequest(s, body))

HandleCreateReservation(p, s, body_user_id, tok) ==
  CreateReservation(p, s, GwReservationUser(body_user_id, tok))

HandleCancelReservation(p, r, tok) ==
  CancelReservation(p, GwCancelRequest(r, tok))

Tick ==
  /\ now + 1 \in Times
  /\ now' = now + 1
  /\ UNCHANGED <<sessions, reservations, nextSid, nextRid, lock, procs>>

Next ==
  \/ \E p \in Procs, req \in CreateRequests : CreateSession(p, req) /\ OtherServices
  \/ \E p \in Procs, s \in SessionIds : GetSession(p, s) /\ OtherServices
  \/ \E p \in Procs, s \in SessionIds, body \in UpdateBodies :
        HandleUpdateSession(p, s, body) /\ OtherServices
  \/ \E p \in Procs, s \in SessionIds : DeleteSession(p, s) /\ OtherServices
  \/ \E p \in Procs, s \in SessionIds, b \in {"", "B"}, tok \in Members :
        HandleCreateReservation(p, s, b, tok) /\ OtherServices
  \/ \E p \in Procs : CR_Admit(p) /\ OtherServices
  \/ \E p \in Procs : CR_Insert(p) /\ OtherServices
  \/ \E p \in Procs, r \in ResIds, tok \in Users :
        HandleCancelReservation(p, r, tok) /\ OtherServices
  \/ \E p \in Procs : Cancel_Mark(p) /\ OtherServices
  \/ \E p \in Procs : Cancel_Dec(p) /\ OtherServices
  \/ \E p \in Procs : Commit(p) /\ OtherServices
  \/ \E p \in Procs, c \in AbortCodes : Abort(p, c) /\ OtherServices
  \/ Tick /\ OtherServices

Spec == Init /\ [][Next]_vars

\* ------------------------------------------------------------ the listings
\* the query of GET /: include_past is left out ({}) or a string
ListQueries == [include_past : {{}, {"true"}, {"false"}}]

\* a mutated translation: the past is left out only on request
GwListRequestAll(query) ==
  [include_past |-> query.include_past # {"false"}, page |-> 1, limit |-> 10]
\* router.get('/'): include_past: include_past === 'true'; no query of the
\* model carries page or limit: parseInt(undefined) || 1, and || 10
GwListRequest(query) ==
  [include_past |-> query.include_past = {"true"}, page |-> 1, limit |-> 10]

\* the sessions ListSessions returns (no request of the model carries a
\* date, type or coach filter, and one page holds every session)
ListSessionsReply(req) ==
  {s \in DOMAIN sessions : req.include_past \/ sessions[s].end_time >= now}

ListSessions(p, req) ==
  /\ procs[p].pc = "idle"
  /\ Finish(p, "ListSessions", "OK")
  /\ UNCHANGED <<sessions, reservations, nextSid, nextRid, lock, now>>

GetReservation(p, r) ==
  /\ procs[p].pc = "idle"
  /\ Finish(p, "GetReservation",
            IF r \in DOMAIN reservations THEN "OK" ELSE "NotFound")
  /\ UNCHANGED <<sessions, reservations, nextSid, nextRid, lock, now>>

ListUserReservations(p, u) ==
  /\ procs[p].pc = "idle"
  /\ Finish(p, "ListUserReservations", "OK")
  /\ UNCHANGED <<sessions, reservations, nextSid, nextRid, lock, now>>

ListSessionReservations(p, s) ==
  /\ procs[p].pc = "idle"
  /\ Finish(p, "ListSessionReservations", "OK")
  /\ UNCHANGED <<sessions, reservations, nextSid, nextRid, lock, now>>

\* ------------------------------------------------------------ the gateway
\* handleGrpcError: the HTTP status of a failed call
handleGrpcError(code) ==
  CASE code = "NotFound" -> 404
    [] code = "AlreadyExists" -> 409
    [] code = "PermissionDenied" -> 403
    [] OTHER -> 500

\* the routes of the router of session.routes.js, in the order they are
\* registered; a pattern is the sequence of its segments
sessionRoutes ==
  << [method |-> "GET", pattern |-> <<>>, rpc |-> "ListSessions"],
     [method |-> "GET", pattern |-> <<":id">>, rpc |-> "GetSession"],
     [method |-> "POST", pattern |-> <<>>, rpc |-> "CreateSession"],
     [method |-> "PUT", pattern |-> <<":id">>, rpc |-> "UpdateSession"],
     [method |-> "DELETE", pattern |-> <<":id">>, rpc |-> "DeleteSession"],
     [method |-> "POST", pattern |-> <<>>, rpc |-> "CreateReservation"],
     [method |-> "GET", pattern |-> <<":id">>, rpc |-> "GetReservation"],
     [method |-> "DELETE", pattern |-> <<":id">>, rpc |-> "CancelReservation"],
     [method |-> "GET", pattern |-> <<"user", ":userId">>,
      rpc |-> "ListUserReservations"],
     [method |-> "GET", pattern |-> <<"session", ":sessionId">>,
      rpc |-> "ListSessionReservations"] >>

\* the names of the path parameters
RouteParams == {":id", ":userId", ":sessionId"}

\* a route matches a request: the method, and every segment of the path is
\* the segment of the pattern or stands for a parameter
RouteMatches(route, method, path) ==
  /\ route.method = method
  /\ Len(route.pattern) = Len(path)
  /\ \A k \in 1..Len(path) :
       route.pattern[k] \in RouteParams \/ route.pattern[k] = path[k]

\* the matching routes, in the order of registration
MatchingRoutes(method, path) ==
  {i \in 1..Len(sessionRoutes) : RouteMatches(sessionRoutes[i], method, path)}

\* the route whose handler answers: the first that matches (no handler of
\* the router calls next()); 0 when none matches
Dispatch(method, path) ==
  LET m == MatchingRoutes(method, path) IN
  IF m = {} THEN 0 ELSE CHOOSE i \in m : \A j \in m : i <= j

\* the routes of the router of payment.routes.js, in the order they are
\* registered, with the GraphQL operation each forwards
paymentRoutes ==
  << [method |-> "GET", pattern |-> <<>>, operation |-> "subscriptionPlans"],
     [method |-> "GET", pattern |-> <<":id">>, operation |-> "subscriptionPlan"],
     [method |-> "POST", pattern |-> <<>>, operation |-> "createSubscriptionPlan"],
     [method |-> "PUT", pattern |-> <<":id">>, operation |-> "updateSubscriptionPlan"],
     [method |-> "DELETE", pattern |-> <<":id">>,
      operation |-> "deleteSubscriptionPlan"],
     [method |-> "POST", pattern |-> <<"subscribe">>,
      operation |-> "createSubscription"],
     [method |-> "GET", pattern |-> <<"user", ":userId">>,
      operation |-> "userSubscriptions"],
     [method |-> "GET", pattern |-> <<"subscription", ":id">>,
      operation |-> "subscription"],
     [method |-> "POST", pattern |-> <<"process">>, operation |-> "processPayment"] >>

\* the first route of the payment router that matches; 0 when none does
DispatchPayment(method, path) ==
  LET m == {i \in 1..Len(paymentRoutes) :
              RouteMatches(paymentRoutes[i], method, path)} IN
  IF m = {} THEN 0 ELSE CHOOSE i \in m : \A j \in m : i <= j

\* the mounts of the gateway: app.use(mount, [verifyToken,] handler)
Mounts ==
  {"/api/sessions", "/api/reservations", "/api/subscriptions", "/api/payments",
   "/api/notifications"}
\* a mutated mounting: verifyToken guards the reservations only
ProtectedReservationsOnly(mount) == mount = "/api/reservations"
\* the mounts that run verifyToken before their handler
Protected(mount) ==
  mount \in {"/api/reservations", "/api/payments", "/api/notifications"}
\* what is mounted: the session router, the payment router or the proxy
Mounted(mount) ==
  CASE mount \in {"/api/sessions", "/api/reservations"} -> "sessionRoutes"
    [] mount \in {"/api/subscriptions", "/api/payments"} -> "paymentRoutes"
    [] OTHER -> "createProxyMiddleware"

\* the bearer token of a request: "" when the Authorization header is
\* missing, "bad" for a token jwt.verify rejects, else the subject it carries
Tokens == {"", "bad", "A", "adm"}
\* jwt.verify accepts the token
JwtVerifies(tok) == tok \in Users
\* verifyToken: next() is called (TRUE) or the request is answered with 401
verifyToken(tok) == tok # "" /\ JwtVerifies(tok)

\* the bodies of POST /api/reservations
ReservationBodies == [session_id : SessionIds, user_id : {"", "B"}]

NoBody == <<>>
NoQuery == <<>>

\* the requests the clients send to one mount with one token
HttpRequestsOf(mount, tok) ==
  [mount : {mount}, tok : {tok}, method : {"GET"}, path : {<<>>},
   query : ListQueries, body : {NoBody}]
    \cup [mount : {mount}, tok : {tok}, method : {"GET", "DELETE"},
          path : {<<"1">>}, query : {NoQuery}, body : {NoBody}]
    \cup [mount : {mount}, tok : {tok}, method : {"GET"},
          path : {<<"user", "A">>, <<"session", "1">>},
          query : {NoQuery}, body : {NoBody}]
    \cup [mount : {mount}, tok : {tok}, method : {"POST"}, path : {<<>>},
          query : {NoQuery}, body : CreateRequests \cup ReservationBodies]
    \cup [mount : {mount}, tok : {tok}, method : {"PUT"}, path : {<<"1">>},
          query : {NoQuery}, body : UpdateBodies]

\* the requests the clients send to a mount of the payment router
PaymentRequestsOf(mount, tok) ==
  [mount : {mount}, tok : {tok}, method : {"GET", "POST"}, path : {<<>>},
   query : {NoQuery}, body : {NoBody}]
    \cup [mount : {mount}, tok : {tok}, method : {"GET", "PUT", "DELETE"},
          path : {<<"1">>}, query : {NoQuery}, body : {NoBody}]
    \cup [mount : {mount}, tok : {tok}, method : {"GET"},
          path : {<<"user", "A">>, <<"subscription", "1">>},
          query : {NoQuery}, body : {NoBody}]
    \cup [mount : {mount}, tok : {tok}, method : {"POST"},
          path : {<<"subscribe">>}, query : {NoQuery}, body : [userId : {"", "B"}]]
    \cup [mount : {mount}, tok : {tok}, method : {"POST"},
          path : {<<"process">>}, query : {NoQuery}, body : {NoBody}]

\* the requests the clients send to the notification service
NotificationRequestsOf(mount, tok) ==
  [mount : {mount}, tok : {tok}, method : {"GET"}, path : {<<"A">>},
   query : {NoQuery}, body : {NoBody}]
    \cup [mount : {mount}, tok : {tok}, method : {"PUT"},
          path : {<<"1", "read">>}, query : {NoQuery}, body : {NoBody}]

HttpRequests ==
  UNION {CASE Mounted(mount) = "sessionRoutes" -> HttpRequestsOf(mount, tok)
           [] Mounted(mount) = "paymentRoutes" -> PaymentRequestsOf(mount, tok)
           [] OTHER -> NotificationRequestsOf(mount, tok) :
         mount \in Mounts, tok \in Tokens}

\* req.params.id as the id of a row: the number the string stands for, 0
\* (the id of no row) for any other string
ParseId(seg) == IF seg = "1" THEN 1 ELSE 0

\* a field of a JSON body that may be left out: the zero value the request
\* message carries then ("" for a string, 0 for parseInt(undefined))
BodyField(body, f, zero) == IF f \in DOMAIN body THEN body[f] ELSE zero

\* router.post('/') (sessions): the request of CreateSession
GwCreateRequest(body) ==
  [title |-> BodyField(body, "title", ""),
   coach_id |-> BodyField(body, "coach_id", ""),
   capacity |-> BodyField(body, "capacity", 0),
   start_time |-> BodyField(body, "start_time", 0),
   end_time |-> BodyField(body, "end_time", 0),
   location |-> BodyField(body, "location", ""),
   session_type |-> BodyField(body, "session_type", ""),
   difficulty_level |-> BodyField(body, "difficulty_level", "")]

\* the handler of a route runs: the RPC it calls, with the request it builds
Invoke(p, rpc, req) ==
  CASE rpc = "ListSessions" -> ListSessions(p, GwListRequest(req.query))
    [] rpc = "GetSession" -> GetSession(p, ParseId(req.path[1]))
    [] rpc = "CreateSession" -> CreateSession(p, GwCreateRequest(req.body))
    [] rpc = "UpdateSession" ->
         HandleUpdateSession(p, ParseId(req.path[1]), req.body)
    [] rpc = "DeleteSession" -> DeleteSession(p, ParseId(req.path[1]))
    [] rpc = "CreateReservation" ->
         HandleCreateReservation(p, BodyField(req.body, "session_id", 0),
                                 BodyField(req.body, "user_id", ""), req.tok)
    [] rpc = "GetReservation" -> GetReservation(p, ParseId(req.path[1]))
    [] rpc = "CancelReservation" ->
         HandleCancelReservation(p, ParseId(req.path[1]), req.tok)
    [] rpc = "ListUserReservations" -> ListUserReservations(p, req.path[2])
    [] rpc = "ListSessionReservations" ->
         ListSessionReservations(p, ParseId(req.path[2]))

\* the request is answered before any handler runs
Refuse(p, answer) ==
  /\ procs[p].pc = "idle"
  /\ Finish(p, "none", answer)
  /\ UNCHANGED <<sessions, reservations, nextSid, nextRid, lock, now>>

\* the request goes on to the payment or the notification service, which
\* answers it (the steps of the resolvers are those of SpecPayment)
Forward(p, operation) ==
  /\ procs[p].pc = "idle"
  /\ Finish(p, operation, "Forwarded")
  /\ UNCHANGED <<sessions, reservations, nextSid, nextRid, lock, now>>

\* the handler of a route of the payment router: forwardGraphQLRequest,
\* after the handler's own look at req.user
ForwardGraphQL(p, operation, req) ==
  CASE operation = "createSubscription" /\ req.body.userId = ""
         /\ ~verifyToken(req.tok) ->
         \* userId || req.user.userId with no req.user: the handler throws
         \* before it forwards
         Refuse(p, "NoAnswer")
    [] operation = "userSubscriptions" /\ ~verifyToken(req.tok) ->
         Refuse(p, "NoAnswer")
    [] operation = "userSubscriptions" /\ verifyToken(req.tok)
         /\ req.tok # req.path[2] /\ Role(req.tok) # "admin" ->
         Refuse(p, "PermissionDenied")
    [] OTHER -> Forward(p, operation)

\* one request at the gateway: verifyToken on the protected mounts, then
\* the router or the proxy of the mount
Http(p, req) ==
  LET i == Dispatch(req.method, req.path)
      k == DispatchPayment(req.method, req.path) IN
  IF Protected(req.mount) /\ ~verifyToken(req.tok)
  THEN Refuse(p, "Unauthenticated")
  ELSE CASE Mounted(req.mount) = "sessionRoutes" ->
              IF i = 0 THEN Refuse(p, "NoRoute")
              ELSE Invoke(p, sessionRoutes[i].rpc, req)
         [] Mounted(req.mount) = "paymentRoutes" ->
              IF k = 0 THEN Refuse(p, "NoRoute")
              ELSE ForwardGraphQL(p, paymentRoutes[k].operation, req)
         [] OTHER -> Forward(p, "notification-service")

\* the gateway's event loop runs the handler of one request at a time, and
\* every call the router makes here ends in one step of the service
GatewayProcs == {"p1"}

\* the clients reach the service through the gateway only
NextGateway ==
  \/ \E p \in GatewayProcs, req \in HttpRequests : Http(p, req) /\ OtherServices
  \/ Tick /\ OtherServices

SpecGateway == Init /\ [][NextGateway]_vars

\* ------------------------------------------- concurrent admissions alone
\* an open session of capacity c in which k < c spots are taken (by the
\* user adm), and no call made yet
RaceSession(c, k) ==
  [NewSessionRow([BaseRequest EXCEPT !.capacity = c]) EXCEPT !.reserved_spots = k]

InitRace ==
  /\ now = 0
  /\ \E c \in 1..MaxCap : \E k \in {0, 1} :
       /\ k < c
       /\ sessions = (1 :> RaceSession(c, k))
       /\ reservations = [r \in 1..k |-> NewReservationRow(1, "adm")]
       /\ nextRid = k + 1
  /\ nextSid = 2
  /\ lock = [s \in SessionIds |-> ""]
  /\ procs = [p \in Procs |-> Idle]
  /\ mongodb = NoDocuments
  /\ kafka = NoMessages

\* the user whose request the invocation p serves
RaceUser(p) == IF p = "p1" THEN "A" ELSE "B"

\* every invocation calls CreateReservation once, each for another user,
\* while time passes; nothing else runs
NextRace ==
  \/ \E p \in Procs : \E b \in {"", RaceUser(p)} :
        procs[p].op = "none" /\ HandleCreateReservation(p, 1, b, RaceUser(p)) /\ OtherServices
  \/ \E p \in Procs : CR_Admit(p) /\ OtherServices
  \/ \E p \in Procs : CR_Insert(p) /\ OtherServices
  \/ \E p \in Procs : Commit(p) /\ OtherServices
  \/ Tick /\ OtherServices

SpecRace == InitRace /\ [][NextRace]_vars

\* ------------------------------------------------------ the payment service
MaxPlans == 1           \* subscription plans ever created
MaxSubscriptions == 1   \* subscriptions ever created
MaxPayments == 3        \* payments ever saved
MaxMessages == 3        \* messages the topic holds

\* the variables of the session service, which the other services leave alone
sessionVars == <<sessions, reservations, nextSid, nextRid, lock, now>>

\* the Authorization header of a GraphQL request: "" when it is missing,
\* else the token of a user
Auths == {"", "A", "adm"}

\* verifyToken of resolvers.js: the user it returns for every header that is
\* present ('Authentication required' is thrown when there is none)
paymentVerifyToken(auth) == [userId |-> "mockUserId", role |-> "admin"]
\* isAdmin: no error is thrown
isAdmin(auth) == auth # "" /\ paymentVerifyToken(auth).role = "admin"
\* the resolver may act for the user u
MayActFor(auth, u) ==
  paymentVerifyToken(auth).role = "admin" \/ paymentVerifyToken(auth).userId = u

\* paymentMethod: enum ['credit_card', 'paypal', 'bank_transfer'], required
PaymentMethods == {"credit_card", "paypal", "bank_transfer"}
\* the methods a client sends: a valid one and one the schema rejects
MethodInputs == {"credit_card", "cash"}
\* the inputs of the plan mutations (one duration, in days)
PlanInputs == [name : {"basic"}, duration : {1}, isActive : BOOLEAN]
SubscriptionInputs == [userId : {"A"}, planId : 1..MaxPlans, paymentMethod : MethodInputs]
PaymentInputs == [subscriptionId : {MaxPlans + 1}, paymentMethod : MethodInputs]

\* the id of the next document saved (an ObjectId is never handed out twice)
NewId == mongodb.oids + 1
\* payments saved, and those a createSubscription under way will save
PaymentsDue ==
  Cardinality(DOMAIN mongodb.payments)
    + Cardinality({q \in Procs : procs[q].pc = "payment"})

\* a resolver invocation that has not run
NoCall == [op |-> "none", pc |-> "idle", code |-> "none", input |-> <<>>,
           subscription |-> <<>>]
\* the resolver returns (code "OK") or throws (the error as code)
Return(p, op, code) ==
  procs' = [procs EXCEPT ![p] = [op |-> op, pc |-> "idle", code |-> code,
                                 input |-> <<>>, subscription |-> <<>>]]
\* the resolver goes on after an await, holding its input and the
\* subscription document it has in memory
Await(p, op, pc, input, subscription) ==
  procs' = [procs EXCEPT ![p] = [op |-> op, pc |-> pc, code |-> "none",
                                 input |-> input, subscription |-> subscription]]

\* an event as the payment service publishes it
PaymentEvent(type, userId, subscriptionId) ==
  [event |-> type, userId |-> userId, subscriptionId |-> subscriptionId]

\* sendPaymentEvent: the message is appended to payment-events; when the
\* send fails (here: the topic is full) the error is logged and the event is
\* dropped
sendPaymentEvent(event) ==
  kafka' = IF Len(kafka.topic) < MaxMessages
           THEN [kafka EXCEPT !.topic = Append(@, event)]
           ELSE kafka

createSubscriptionPlan(p, input, auth) ==
  /\ procs[p].pc = "idle"
  /\ mongodb.oids < MaxPlans
  /\ IF auth = ""
     THEN Return(p, "createSubscriptionPlan", "Authentication required")
          /\ UNCHANGED mongodb
     ELSE IF ~isAdmin(auth)
     THEN Return(p, "createSubscriptionPlan", "Admin access required")
          /\ UNCHANGED mongodb
     ELSE /\ mongodb' = [mongodb EXCEPT !.plans = (NewId :> input) @@ @,
                                        !.oids = NewId]
          /\ Return(p, "createSubscriptionPlan", "OK")
  /\ UNCHANGED <<kafka, sessionVars>>

updateSubscriptionPlan(p, id, input, auth) ==
  /\ procs[p].pc = "idle"
  /\ IF auth = ""
     THEN Return(p, "updateSubscriptionPlan", "Authentication required")
          /\ UNCHANGED mongodb
     ELSE IF ~isAdmin(auth)
     THEN Return(p, "updateSubscriptionPlan", "Admin access required")
          /\ UNCHANGED mongodb
     ELSE /\ mongodb' = IF id \in DOMAIN mongodb.plans
                        THEN [mongodb EXCEPT !.plans[id] = input]
                        ELSE mongodb
          /\ Return(p, "updateSubscriptionPlan", "OK")
  /\ UNCHANGED <<kafka, sessionVars>>

deleteSubscriptionPlan(p, id, auth) ==
  /\ procs[p].pc = "idle"
  /\ IF auth = ""
     THEN Return(p, "deleteSubscriptionPlan", "Authentication required")
          /\ UNCHANGED mongodb
     ELSE IF ~isAdmin(auth)
     THEN Return(p, "deleteSubscriptionPlan", "Admin access required")
          /\ UNCHANGED mongodb
     ELSE /\ mongodb' = [mongodb EXCEPT
                           !.plans = [i \in (DOMAIN @) \ {id} |-> @[i]]]
          /\ Return(p, "deleteSubscriptionPlan", "OK")
  /\ UNCHANGED <<kafka, sessionVars>>

\* createSubscription up to the first save: the checks, the plan, and
\* subscription.save()
createSubscription(p, input, auth) ==
  /\ procs[p].pc = "idle"
  /\ mongodb.oids >= MaxPlans
  /\ Cardinality(DOMAIN mongodb.subscriptions) < MaxSubscriptions
  /\ PaymentsDue < MaxPayments
  /\ IF auth = ""
     THEN Return(p, "createSubscription", "Authentication required")
          /\ UNCHANGED mongodb
     ELSE IF ~MayActFor(auth, input.userId)
     THEN Return(p, "createSubscription", "Not authorized")
          /\ UNCHANGED mongodb
     ELSE IF input.planId \notin DOMAIN mongodb.plans
     THEN Return(p, "createSubscription", "Subscription plan not found")
          /\ UNCHANGED mongodb
     ELSE /\ mongodb' =
               [mongodb EXCEPT
                  !.subscriptions =
                     (NewId :> [userId |-> input.userId,
                                subscriptionPlanId |-> input.planId,
                                startDate |-> now,
                                endDate |-> now + mongodb.plans[input.planId].duration,
                                status |-> "active",
                                paymentId |-> 0]) @@ @,
                  !.oids = NewId]
          /\ Await(p, "createSubscription", "payment", input,
                   [id |-> NewId, paymentId |-> 0])
  /\ UNCHANGED <<kafka, sessionVars>>

\* payment.save(): the schema rejects a paymentMethod outside the enum, and
\* the resolver throws
CS_SavePayment(p) ==
  LET input == procs[p].input
      sub == procs[p].subscription IN
  /\ procs[p].op = "createSubscription" /\ procs[p].pc = "payment"
  /\ IF input.paymentMethod \notin PaymentMethods
     THEN Return(p, "createSubscription", "ValidationError")
          /\ UNCHANGED mongodb
     ELSE /\ mongodb' =
               [mongodb EXCEPT
                  !.payments =
                     (NewId :> [subscriptionId |-> sub.id,
                                paymentMethod |-> input.paymentMethod,
                                status |-> "successful"]) @@ @,
                  !.oids = NewId]
          /\ Await(p, "createSubscription", "link", input,
                   [id |-> sub.id, paymentId |-> NewId])
  /\ UNCHANGED <<kafka, sessionVars>>

\* savedSubscription.paymentId = savedPayment._id; save(); the event
CS_Link(p) ==
  LET input == procs[p].input
      sub == procs[p].subscription IN
  /\ procs[p].op = "createSubscription" /\ procs[p].pc = "link"
  /\ mongodb' = [mongodb EXCEPT !.subscriptions[sub.id].paymentId = sub.paymentId]
  /\ sendPaymentEvent(PaymentEvent("subscription_created", input.userId, sub.id))
  /\ Return(p, "createSubscription", "OK")
  /\ UNCHANGED sessionVars

cancelSubscription(p, id, auth) ==
  /\ procs[p].pc = "idle"
  /\ IF auth = ""
     THEN Return(p, "cancelSubscription", "Authentication required")
          /\ UNCHANGED <<mongodb, kafka>>
     ELSE IF id \notin DOMAIN mongodb.subscriptions
     THEN Return(p, "cancelSubscription", "Subscription not found")
          /\ UNCHANGED <<mongodb, kafka>>
     ELSE IF ~MayActFor(auth, mongodb.subscriptions[id].userId)
     THEN Return(p, "cancelSubscription", "Not authorized")
          /\ UNCHANGED <<mongodb, kafka>>
     ELSE /\ mongodb' = [mongodb EXCEPT !.subscriptions[id].status = "cancelled"]
          /\ sendPaymentEvent(PaymentEvent("subscription_cancelled",
                                           mongodb.subscriptions[id].userId, id))
          /\ Return(p, "cancelSubscription", "OK")
  /\ UNCHANGED sessionVars

\* processPayment up to payment.save(): the subscription is read into the
\* resolver's memory, then the payment is saved
processPayment(p, input, auth) ==
  LET id == input.subscriptionId IN
  /\ procs[p].pc = "idle"
  /\ PaymentsDue < MaxPayments
  /\ IF auth = ""
     THEN Return(p, "processPayment", "Authentication required")
          /\ UNCHANGED mongodb
     ELSE IF id \notin DOMAIN mongodb.subscriptions
     THEN Return(p, "processPayment", "Subscription not found")
          /\ UNCHANGED mongodb
     ELSE IF ~MayActFor(auth, mongodb.subscriptions[id].userId)
     THEN Return(p, "processPayment", "Not authorized")
          /\ UNCHANGED mongodb
     ELSE IF input.paymentMethod \notin PaymentMethods
     THEN Return(p, "processPayment", "ValidationError")
          /\ UNCHANGED mongodb
     ELSE /\ mongodb' =
               [mongodb EXCEPT
                  !.payments =
                     (NewId :> [subscriptionId |-> id,
                                paymentMethod |-> input.paymentMethod,
                                status |-> "successful"]) @@ @,
                  !.oids = NewId]
          /\ Await(p, "processPayment", "extend", input,
                   [id |-> id,
                    subscriptionPlanId |-> mongodb.subscriptions[id].subscriptionPlanId,
                    userId |-> mongodb.subscriptions[id].userId,
                    endDate |-> mongodb.subscriptions[id].endDate,
                    status |-> mongodb.subscriptions[id].status])
  /\ UNCHANGED <<kafka, sessionVars>>

\* the renewal: the plan is read, and when it exists and the subscription
\* the resolver holds is active, endDate (of the document in memory) plus
\* the plan's duration is saved; then the event
PP_Extend(p) ==
  LET sub == procs[p].subscription IN
  /\ procs[p].op = "processPayment" /\ procs[p].pc = "extend"
  /\ mongodb' =
       IF sub.subscriptionPlanId \in DOMAIN mongodb.plans /\ sub.status = "active"
       THEN [mongodb EXCEPT
               !.subscriptions[sub.id].endDate =
                  sub.endDate + mongodb.plans[sub.subscriptionPlanId].duration]
       ELSE mongodb
  /\ sendPaymentEvent(PaymentEvent("payment_processed", sub.userId, sub.id))
  /\ Return(p, "processPayment", "OK")
  /\ UNCHANGED sessionVars

InitPayment ==
  /\ sessions = <<>> /\ reservations = <<>>
  /\ nextSid = 1 /\ nextRid = 1
  /\ lock = [s \in SessionIds |-> ""]
  /\ now = 0
  /\ procs = [p \in Procs |-> NoCall]
  /\ mongodb = NoDocuments
  /\ kafka = NoMessages

NextPayment ==
  \/ \E p \in Procs, input \in PlanInputs, auth \in Auths :
        createSubscriptionPlan(p, input, auth)
  \/ \E p \in Procs, id \in 1..MaxPlans, input \in PlanInputs, auth \in Auths :
        updateSubscriptionPlan(p, id, input, auth)
  \/ \E p \in Procs, id \in 1..MaxPlans, auth \in Auths :
        deleteSubscriptionPlan(p, id, auth)
  \/ \E p \in Procs, input \in SubscriptionInputs, auth \in Auths :
        createSubscription(p, input, auth)
  \/ \E p \in Procs : CS_SavePayment(p)
  \/ \E p \in Procs : CS_Link(p)
  \/ \E p \in Procs, id \in {MaxPlans + 1}, auth \in Auths :
        cancelSubscription(p, id, auth)
  \/ \E p \in Procs, input \in PaymentInputs, auth \in Auths :
        processPayment(p, input, auth)
  \/ \E p \in Procs : PP_Extend(p)

SpecPayment == InitPayment /\ [][NextPayment]_vars

\* ------------------------------------------------- the notification service
\* the consumer of the group notification-group
Consumers == {"notification-group"}

\* the events of payment-events
PaymentEvents ==
  {PaymentEvent(type, "A", MaxPlans + 1) :
     type \in {"subscription_created", "subscription_cancelled", "payment_processed"}}
\* the values of the messages of the two topics: the events of the payment
\* service, an event of the session service, and a value that is no JSON
Messages ==
  PaymentEvents
    \cup {[event |-> "session_reserved", userId |-> "A", sessionTitle |-> "t"],
          [raw |-> "{"]}

\* the keys of notificationHandlers
notificationHandlers ==
  {"session_reserved", "session_cancelled", "payment_processed",
   "subscription_created", "subscription_expiring"}

\* what goes wrong while a handler runs: nothing, transporter.sendMail
\* rejects, or notification.save() rejects
Faults == {"none", "email", "save"}

\* JSON.parse(message.value.toString()) returns an event
Parses(msg) == "event" \in DOMAIN msg

\* how eachMessage ends for a message: the parse error and the errors of the
\* handler are caught and logged (in eachMessage and in the handler)
Outcome(msg, fault) ==
  IF ~Parses(msg) THEN "ParseError"
  ELSE IF msg.event \notin notificationHandlers THEN "NoHandler"
  ELSE IF fault = "email" THEN "EmailError"
  ELSE IF fault = "save" THEN "SaveError"
  ELSE "OK"

\* a mutated handler: the notification is saved although the mail failed
StoresDespiteEmail(outcome) == outcome \in {"OK", "EmailError"}
\* saveNotification has run to its end
Stores(outcome) == outcome = "OK"

\* the document a handler saves for an event
NotificationOf(event) ==
  [userId |-> event.userId, type |-> event.event, data |-> event, read |-> FALSE]

\* producer.send: a message arrives in a topic (no two messages are the
\* same: an event carries its timestamp)
Publish(msg) ==
  /\ Len(kafka.topic) < MaxMessages
  /\ \A k \in 1..Len(kafka.topic) : kafka.topic[k] # msg
  /\ kafka' = [kafka EXCEPT !.topic = Append(@, msg)]
  /\ UNCHANGED <<mongodb, procs, sessionVars>>

\* eachMessage for the next message of the group; it resolves whatever
\* happens, so the offset moves on
eachMessage(c, fault) ==
  LET msg == kafka.topic[kafka.offset + 1]
      outcome == Outcome(msg, fault) IN
  /\ procs[c].pc = "idle"
  /\ kafka.offset < Len(kafka.topic)
  /\ mongodb' = IF Stores(outcome)
                THEN [mongodb EXCEPT !.notifications = Append(@, NotificationOf(msg))]
                ELSE mongodb
  /\ kafka' = [kafka EXCEPT !.offset = @ + 1]
  /\ Return(c, "eachMessage", outcome)
  /\ UNCHANGED sessionVars

InitNotification ==
  /\ sessions = <<>> /\ reservations = <<>>
  /\ nextSid = 1 /\ nextRid = 1
  /\ lock = [s \in SessionIds |-> ""]
  /\ now = 0
  /\ procs = [c \in Consumers |-> NoCall]
  /\ mongodb = NoDocuments
  /\ kafka = NoMessages

NextNotification ==
  \/ \E msg \in Messages : Publish(msg)
  \/ \E c \in Consumers, fault \in Faults : eachMessage(c, fault)

SpecNotification == InitNotification /\ [][NextNotification]_vars

\* consumer.run: a message that has arrived is handed to eachMessage
SpecNotificationLive ==
  SpecNotification
    /\ WF_vars(\E c \in Consumers, fault \in Faults : eachMessage(c, fault))

\* --------------------------------------------------- the users (REST) API
\* one request at a time: every controller below is modelled as one step
UserProcs == {"p1"}
\* the ids of the user documents (the subject of a token is the id)
UserIds == {"adm", "A", "B"}
\* the bearer token of a request: "" when it is missing or invalid
UserTokens == {""} \cup UserIds

\* a user document as createUser saves it
UserDoc(firstName, email, role) ==
  [firstName |-> firstName, email |-> email, password |-> "hash", role |-> role]

\* auth: req.user of a token, the stored user of its subject; {} when the
\* request is answered with 401
ReqUser(tok) ==
  IF tok \in DOMAIN mongodb.users
  THEN {[id |-> tok, role |-> mongodb.users[tok].role]}
  ELSE {}

\* the bodies of PUT /:id: every field is left out ({}) or given
UserBodies ==
  [firstName : {{}, {"n2"}}, role : {{}, {"admin"}}, email : {{}, {"e2"}},
   password : {{}, {"p2"}}]

\* a mutated controller: the role of the body is written too
UpdatableWithRole ==
  {"firstName", "lastName", "phone", "dateOfBirth", "active", "membershipStatus", "role"}
\* the fields updateUser copies from the body into userFields
Updatable ==
  {"firstName", "lastName", "phone", "dateOfBirth", "active", "membershipStatus"}

\* userFields of a body: the updatable fields that are given
userFields(body) ==
  LET given == {f \in Updatable \cap DOMAIN body : body[f] # {}} IN
  [f \in given |-> CHOOSE v \in body[f] : TRUE]

\* { $set: fields } on a document
SetFields(doc, fields) ==
  [f \in DOMAIN doc |-> IF f \in DOMAIN fields THEN fields[f] ELSE doc[f]]

\* the controller answers: the status, with the caller and the id of the
\* request
Respond(p, op, status, tok, id) ==
  procs' = [procs EXCEPT ![p] = [op |-> op, pc |-> "idle", code |-> status,
                                 input |-> [user |-> ReqUser(tok), id |-> id],
                                 subscription |-> <<>>]]

\* router.get('/:id', auth, getUserById)
getUserById(p, tok, id) ==
  /\ procs[p].pc = "idle"
  /\ Respond(p, "getUserById",
             IF ReqUser(tok) = {} THEN 401
             ELSE IF id \notin DOMAIN mongodb.users THEN 404
             ELSE 200, tok, id)
  /\ UNCHANGED <<mongodb, kafka, sessionVars>>

\* router.post('/', [auth, authorize('admin'), ...], createUser); the new
\* document gets the id B
createUser(p, tok, role) ==
  /\ procs[p].pc = "idle"
  /\ mongodb.oids = 0
  /\ IF ReqUser(tok) = {}
     THEN Respond(p, "createUser", 401, tok, "B") /\ UNCHANGED mongodb
     ELSE IF \E u \in ReqUser(tok) : u.role # "admin"
     THEN Respond(p, "createUser", 403, tok, "B") /\ UNCHANGED mongodb
     ELSE IF role \notin {"admin", "member", "coach"}
     THEN Respond(p, "createUser", 400, tok, "B") /\ UNCHANGED mongodb
     ELSE /\ mongodb' = [mongodb EXCEPT
                           !.users = ("B" :> UserDoc("n", "B", role)) @@ @,
                           !.oids = 1]
          /\ Respond(p, "createUser", 201, tok, "B")
  /\ UNCHANGED <<kafka, sessionVars>>

\* router.put('/:id', [auth, ...], updateUser)
updateUser(p, tok, id, body) ==
  /\ procs[p].pc = "idle"
  /\ IF ReqUser(tok) = {}
     THEN Respond(p, "updateUser", 401, tok, id) /\ UNCHANGED mongodb
     ELSE IF id \notin DOMAIN mongodb.users
     THEN Respond(p, "updateUser", 404, tok, id) /\ UNCHANGED mongodb
     ELSE IF \E u \in ReqUser(tok) : u.role # "admin" /\ u.id # id
     THEN Respond(p, "updateUser", 403, tok, id) /\ UNCHANGED mongodb
     ELSE /\ mongodb' = [mongodb EXCEPT !.users[id] = SetFields(@, userFields(body))]
          /\ Respond(p, "updateUser", 200, tok, id)
  /\ UNCHANGED <<kafka, sessionVars>>

\* router.delete('/:id', auth, authorize('admin'), deleteUser)
deleteUser(p, tok, id) ==
  /\ procs[p].pc = "idle"
  /\ IF ReqUser(tok) = {}
     THEN Respond(p, "deleteUser", 401, tok, id) /\ UNCHANGED mongodb
     ELSE IF \E u \in ReqUser(tok) : u.role # "admin"
     THEN Respond(p, "deleteUser", 403, tok, id) /\ UNCHANGED mongodb
     ELSE IF id \notin DOMAIN mongodb.users
     THEN Respond(p, "deleteUser", 404, tok, id) /\ UNCHANGED mongodb
     ELSE /\ mongodb' = [mongodb EXCEPT
                           !.users = [i \in (DOMAIN @) \ {id} |-> @[i]]]
          /\ Respond(p, "deleteUser", 200, tok, id)
  /\ UNCHANGED <<kafka, sessionVars>>

\* router.patch('/:id/role', [auth, authorize('admin'), check('role')],
\* updateUserRole)
updateUserRole(p, tok, id, role) ==
  /\ procs[p].pc = "idle"
  /\ IF ReqUser(tok) = {}
     THEN Respond(p, "updateUserRole", 401, tok, id) /\ UNCHANGED mongodb
     ELSE IF \E u \in ReqUser(tok) : u.role # "admin"
     THEN Respond(p, "updateUserRole", 403, tok, id) /\ UNCHANGED mongodb
     ELSE IF role \notin {"admin", "member", "coach"}
     THEN Respond(p, "updateUserRole", 400, tok, id) /\ UNCHANGED mongodb
     ELSE IF id \notin DOMAIN mongodb.users
     THEN Respond(p, "updateUserRole", 404, tok, id) /\ UNCHANGED mongodb
     ELSE /\ mongodb' = [mongodb EXCEPT !.users[id].role = role]
          /\ Respond(p, "updateUserRole", 200, tok, id)
  /\ UNCHANGED <<kafka, sessionVars>>

\* the roles a client sends: two valid ones and one the validator rejects
RoleInputs == {"admin", "member", "owner"}

\* an admin and a member are registered
InitUsers ==
  /\ sessions = <<>> /\ reservations = <<>>
  /\ nextSid = 1 /\ nextRid = 1
  /\ lock = [s \in SessionIds |-> ""]
  /\ now = 0
  /\ procs = [p \in UserProcs |-> NoCall]
  /\ mongodb = [NoDocuments EXCEPT
                  !.users = ("adm" :> UserDoc("n", "adm", "admin"))
                              @@ ("A" :> UserDoc("n", "A", "member"))]
  /\ kafka = NoMessages

NextUsers ==
  \/ \E p \in UserProcs, tok \in UserTokens, id \in UserIds : getUserById(p, tok, id)
  \/ \E p \in UserProcs, tok \in UserTokens, role \in RoleInputs :
        createUser(p, tok, role)
  \/ \E p \in UserProcs, tok \in UserTokens, id \in UserIds, body \in UserBodies :
        updateUser(p, tok, id, body)
  \/ \E p \in UserProcs, tok \in UserTokens, id \in UserIds : deleteUser(p, tok, id)
  \/ \E p \in UserProcs, tok \in UserTokens, id \in UserIds, role \in RoleInputs :
        updateUserRole(p, tok, id, role)

SpecUsers == InitUsers /\ [][NextUsers]_vars

\* ================================================================ claims
Quiescent == \A p \in Procs : procs[p].pc = "idle"
NConfirmed(s) == Cardinality(Confirmed(reservations, s))
Done(p, op, c) == procs[p].pc = "idle" /\ procs[p].op = op /\ procs[p].code = c
\* the step may be the first step of a call of op by p: no other invocation
\* moves, and the clock stands
Calls(p, op) ==
  /\ procs'[p].op = op /\ procs[p].pc = "idle" /\ procs'[p].pc \in {"idle", "wait"}
  /\ now' = now /\ lock' = lock
  /\ \A q \in Procs : q = p \/ procs'[q] = procs[q]

\* C1: in every reachable state, under every interleaving of concurrent
\* CreateReservation calls, the number of confirmed reservations of a
\* session is at most its capacity.
C1_CapacityNeverExceeded ==
  \A s \in DOMAIN sessions : NConfirmed(s) <= sessions[s].capacity

\* C1 happens: a session with every spot confirmed, and a CreateReservation
\* that was refused for it.
C1_Witness ==
  \E s \in DOMAIN sessions, p \in Procs :
    /\ NConfirmed(s) = sessions[s].capacity
    /\ Done(p, "CreateReservation", "ResourceExhausted")

\* C2: in every reachable state a (session, user) pair has at most one
\* confirmed reservation.
C2_OneConfirmedPerPair ==
  \A s \in SessionIds, u \in Users :
    Cardinality(ConfirmedOf(reservations, s, u)) <= 1

\* C2 happens: a user holds a confirmed reservation and a further
\* CreateReservation ended with AlreadyExists.
C2_Witness ==
  \E s \in DOMAIN sessions, u \in Users, p \in Procs :
    /\ ConfirmedOf(reservations, s, u) # {}
    /\ Done(p, "CreateReservation", "AlreadyExists")

\* C3: whenever no operation is in flight, reserved_spots of every session
\* equals the number of its confirmed reservations.
C3_CountConsistentWhenQuiescent ==
  Quiescent => \A s \in DOMAIN sessions : sessions[s].reserved_spots = NConfirmed(s)

\* C3 happens: a quiescent state after a reservation and a cancellation, with
\* one reservation confirmed and one cancelled.
C3_Witness ==
  /\ Quiescent
  /\ \E s \in DOMAIN sessions :
       /\ sessions[s].reserved_spots = 1
       /\ \E r \in RowsOf(reservations, s) : reservations[r].status = "cancelled"

\* C4: in every reachable state every stored session has
\* 0 <= reserved_spots <= capacity.
C4_CountWithinCapacity ==
  \A s \in DOMAIN sessions :
    0 <= sessions[s].reserved_spots /\ sessions[s].reserved_spots <= sessions[s].capacity

\* C4 happens: a session whose capacity an UpdateSession has set to exactly
\* the number of its reserved spots.
C4_Witness ==
  \E s \in DOMAIN sessions, p \in Procs :
    /\ Done(p, "UpdateSession", "OK")
    /\ sessions[s].reserved_spots = sessions[s].capacity
    /\ sessions[s].reserved_spots >= 1

\* the spots that were free before the two calls of the race
RaceFree == sessions[1].capacity - Cardinality(ConfirmedOf(reservations, 1, "adm"))
\* both calls of the race have returned
RaceOver == \A p \in Procs : procs[p].op = "CreateReservation" /\ procs[p].pc = "idle"

\* C5: when one spot is free and the users A and B call CreateReservation
\* concurrently, one call returns the confirmed reservation, the other fails
\* with ResourceExhausted, and reserved_spots ends at the capacity (1 for a
\* session of capacity 1).
C5_OneWinsOneExhausted ==
  (RaceOver /\ RaceFree = 1) =>
    /\ \E p \in Procs : /\ procs[p].code = "OK"
                        /\ \A q \in Procs \ {p} : procs[q].code = "ResourceExhausted"
    /\ sessions[1].reserved_spots = sessions[1].capacity
    /\ NConfirmed(1) = sessions[1].capacity

\* C5 happens: capacity 1, no reservation before, both calls returned, the
\* one of B confirmed.
C5_Witness ==
  /\ RaceOver
  /\ sessions[1].capacity = 1
  /\ ConfirmedOf(reservations, 1, "B") # {}
  /\ procs["p1"].code = "ResourceExhausted"

\* C6: a cancelled reservation does not block the user's next reservation of
\* the session: a CreateReservation that passed the admission (the session is
\* open and had a free spot) fails with AlreadyExists only when the user
\* holds a confirmed reservation of the session.
C6_CancelledDoesNotBlock ==
  [][\A p \in Procs :
       (procs[p].pc = "w1" /\ procs'[p].code = "AlreadyExists" /\ CR_Insert(p))
         => ConfirmedOf(reservations, procs[p].sid, procs[p].uid) # {}]_vars

NewlyCancelled(s) ==
  {r \in Confirmed(reservations, s) :
     r \in DOMAIN reservations' /\ reservations'[r].status = "cancelled"}

C8_ShrinkBelowReservedFails ==
  [][\A p \in Procs :
       Calls(p, "UpdateSession") =>
         \A s \in DOMAIN sessions, body \in UpdateBodies :
           ( /\ \E c \in GwUpdateRequest(s, body).capacity :
                  c < sessions[s].reserved_spots
             /\ HandleUpdateSession(p, s, body) )
             => procs'[p].code = "FailedPrecondition" /\ sessions' = sessions]_vars

\* C8 happens: an UpdateSession ended with FailedPrecondition on a session
\* that holds a reservation, at a time after the row was last written.
C8_Witness ==
  \E s \in DOMAIN sessions, p \in Procs :
    /\ Done(p, "UpdateSession", "FailedPrecondition")
    /\ sessions[s].reserved_spots >= 1
    /\ sessions[s].updated_at < now

\* C9: every step changes reserved_spots of a session by exactly the change
\* of the number of its confirmed reservations, and the rollback of a
\* transaction that failed in the middle changes neither table.
C9_AllOrNothing ==
  [][/\ (sessions' # sessions \/ reservations' # reservations) =>
          \A s \in DOMAIN sessions \cap DOMAIN sessions' :
            sessions'[s].reserved_spots - sessions[s].reserved_spots
              = Cardinality(Confirmed(reservations', s)) - NConfirmed(s)
     /\ \A p \in Procs, c \in AbortCodes :
          (procs[p].pc \in {"w1", "w2"} /\ procs'[p].code = c /\ Abort(p, c))
            => sessions' = sessions /\ reservations' = reservations]_vars

\* C9 happens: a CreateReservation and a CancelReservation that failed after
\* their first writes, with the count still matching the rows.
C9_Witness ==
  /\ Done("p1", "CreateReservation", "DeadlineExceeded")
  /\ Done("p2", "CancelReservation", "Internal")
  /\ \E s \in DOMAIN sessions :
       sessions[s].reserved_spots = 1 /\ NConfirmed(s) = 1

\* C10: CancelReservation by a caller who is neither the owner nor an admin
\* ends with PermissionDenied and changes neither table; by the owner or an
\* admin on a confirmed reservation it passes the checks, and its commit
\* returns OK with the reservation cancelled.
C10_OnlyOwnerOrAdminCancels ==
  [][/\ \A p \in Procs :
          Calls(p, "CancelReservation") =>
            \A r \in DOMAIN reservations, tok \in Users :
              HandleCancelReservation(p, r, tok) =>
                IF reservations[r].user_id = tok \/ Role(tok) = "admin"
                THEN reservations[r].status = "confirmed" =>
                       procs'[p].pc = "wait" /\ procs'[p].rid = r
                ELSE /\ procs'[p].code = "PermissionDenied"
                     /\ sessions' = sessions /\ reservations' = reservations
     /\ \A p \in Procs :
          (procs[p].op = "CancelReservation" /\ procs[p].pc = "w2" /\ Commit(p))
            => /\ procs'[p].code = "OK"
               /\ reservations'[procs[p].rid].status = "cancelled"]_vars

\* C10 happens: a cancellation refused with PermissionDenied while the
\* reservation stays confirmed, and another one that succeeded.
C10_Witness ==
  /\ Done("p1", "CancelReservation", "PermissionDenied")
  /\ Done("p2", "CancelReservation", "OK")
  /\ \E r \in DOMAIN reservations : reservations[r].status = "confirmed"
  /\ \E r \in DOMAIN reservations : reservations[r].status = "cancelled"

\* C11: the only change of the status of a reservation is from confirmed to
\* cancelled: a row that is cancelled stays cancelled (and stays the row of
\* its session and user) as long as it exists, and a row that appears is a
\* new, confirmed one.
C11_CancelledIsTerminal ==
  [][/\ \A r \in DOMAIN reservations \cap DOMAIN reservations' :
          /\ reservations[r].status = "cancelled"
                => reservations'[r].status = "cancelled"
          /\ reservations'[r].session_id = reservations[r].session_id
          /\ reservations'[r].user_id = reservations[r].user_id
     /\ \A r \in (DOMAIN reservations') \ DOMAIN reservations :
          reservations'[r].status = "confirmed" /\ r >= nextRid]_vars

\* C11 happens: a cancelled reservation is in the store while a later
\* CreateReservation has returned OK and a later cancellation of it was
\* refused.
C11_Witness ==
  /\ Done("p1", "CreateReservation", "OK")
  /\ Done("p2", "CancelReservation", "FailedPrecondition")
  /\ \E r \in DOMAIN reservations : reservations[r].status = "cancelled"

\* C12: a CreateReservation for a session id that is not stored ends with
\* NotFound, and one for a session that is cancelled or whose end time has
\* passed ends with FailedPrecondition, at the first checks as well as at
\* the admission under the row lock; in both cases neither table changes.
C12_NoReservationOnMissingOrClosed ==
  [][/\ \A p \in Procs :
          Calls(p, "CreateReservation") =>
            \A s \in SessionIds, b \in {"", "B"}, tok \in Members :
              HandleCreateReservation(p, s, b, tok) =>
                /\ s \notin DOMAIN sessions =>
                     /\ procs'[p].code = "NotFound"
                     /\ sessions' = sessions /\ reservations' = reservations
                /\ ( /\ s \in DOMAIN sessions
                     /\ sessions[s].is_cancelled \/ sessions[s].end_time < now ) =>
                     /\ procs'[p].code = "FailedPrecondition"
                     /\ sessions' = sessions /\ reservations' = reservations
     /\ \A p \in Procs :
          ( /\ procs[p].op = "CreateReservation" /\ procs[p].pc = "wait"
            /\ CR_Admit(p) ) =>
            LET s == procs[p].sid IN
            /\ s \notin DOMAIN sessions =>
                 /\ procs'[p].code = "NotFound"
                 /\ sessions' = sessions /\ reservations' = reservations
            /\ ( /\ s \in DOMAIN sessions
                 /\ sessions[s].is_cancelled \/ sessions[s].end_time < now ) =>
                 /\ procs'[p].code = "FailedPrecondition"
                 /\ sessions' = sessions /\ reservations' = reservations]_vars

\* C12 happens: one CreateReservation ended with NotFound, another with
\* FailedPrecondition on a stored session that holds a reservation and is
\* closed by now.
C12_Witness ==
  /\ Done("p1", "CreateReservation", "NotFound")
  /\ Done("p2", "CreateReservation", "FailedPrecondition")
  /\ \E s \in DOMAIN sessions :
       /\ sessions[s].is_cancelled \/ sessions[s].end_time < now
       /\ sessions[s].reserved_spots = 1

\* C13: a CreateSession whose request has an empty required field, a
\* capacity below 1, or an end time that is not after the start time ends
\* with InvalidArgument and stores no session.
C13_InvalidRequestIsRejected ==
  [][\A p \in Procs :
       Calls(p, "CreateSession") =>
         \A req \in CreateRequests :
           ( /\ \/ req.title = "" \/ req.coach_id = "" \/ req.location = ""
                \/ req.session_type = "" \/ req.difficulty_level = ""
                \/ req.capacity < 1
                \/ req.end_time <= req.start_time
             /\ CreateSession(p, req) )
             => procs'[p].code = "InvalidArgument" /\ sessions' = sessions]_vars

C16_DeleteCascades ==
  [][/\ \A r \in DOMAIN reservations' :
          reservations'[r].session_id \in DOMAIN sessions'
     /\ \A p \in Procs :
          Calls(p, "DeleteSession") =>
            \A s \in SessionIds :
              DeleteSession(p, s) =>
                IF s \in DOMAIN sessions
                THEN /\ procs'[p].code = "OK"
                     /\ s \notin DOMAIN sessions'
                     /\ RowsOf(reservations', s) = {}
                ELSE /\ procs'[p].code = "NotFound"
                     /\ sessions' = sessions /\ reservations' = reservations]_vars

\* C16 happens: a DeleteSession has removed a session that had reservations,
\* and another one found nothing to delete.
C16_Witness ==
  /\ Done("p1", "DeleteSession", "OK")
  /\ Done("p2", "DeleteSession", "NotFound")
  /\ sessions = <<>> /\ reservations = <<>>
  /\ nextRid > 2

ListRequests ==
  {req \in HttpRequests :
     Mounted(req.mount) = "sessionRoutes" /\ req.method = "GET" /\ req.path = <<>>}

\* C18: a GET / whose query has include_past = 'false' or leaves it out
\* calls ListSessions with include_past = false, and the sessions it returns
\* at the time of the request are those whose end time has not passed: none
\* with end_time < now, every one with end_time >= now; it changes no table.
C18_ListExcludesPast ==
  [][\A p \in Procs :
       Calls(p, "ListSessions") =>
         \A req \in ListRequests :
           (req.query.include_past # {"true"} /\ Http(p, req)) =>
             LET reply == ListSessionsReply(GwListRequest(req.query)) IN
             /\ GwListRequest(req.query).include_past = FALSE
             /\ \A s \in DOMAIN sessions :
                  /\ sessions[s].end_time < now => s \notin reply
                  /\ sessions[s].end_time >= now => s \in reply
             /\ sessions' = sessions /\ reservations' = reservations]_vars

\* C18 happens: a listing has returned while a stored session had ended.
C18_Witness ==
  \E p \in Procs, s \in DOMAIN sessions :
    /\ Done(p, "ListSessions", "OK")
    /\ sessions[s].end_time < now

\* the HTTP statuses the taxonomy designates for an error kind
DesignatedStatus(code) ==
  CASE code = "NotFound" -> {404}
    [] code = "AlreadyExists" -> {409}
    [] code = "PermissionDenied" -> {403}
    [] code = "InvalidArgument" -> {400}
    [] code = "ResourceExhausted" -> {409, 429}
    [] code = "Internal" -> {500}

\* C19: for every call that has ended with NotFound, AlreadyExists,
\* PermissionDenied, InvalidArgument, ResourceExhausted or Internal, the
\* status handleGrpcError answers is the one designated for the kind.
C19_ErrorKindsMapToStatus ==
  \A p \in Procs :
    ( /\ procs[p].pc = "idle"
      /\ procs[p].code \in {"NotFound", "AlreadyExists", "PermissionDenied",
                            "InvalidArgument", "ResourceExhausted", "Internal"} )
      => handleGrpcError(procs[p].code) \in DesignatedStatus(procs[p].code)

\* the requests to the reservation endpoints that carry a valid token
ReservationEndpointRequests ==
  {req \in HttpRequests :
     /\ req.mount = "/api/reservations" /\ verifyToken(req.tok)
     /\ \/ req.method = "POST" /\ req.path = <<>>
        \/ req.method \in {"GET", "DELETE"} /\ req.path = <<"1">>}

\* the RPC the documentation gives for a reservation endpoint
DocumentedRpc(req) ==
  CASE req.method = "POST" -> "CreateReservation"
    [] req.method = "GET" -> "GetReservation"
    [] req.method = "DELETE" -> "CancelReservation"

\* C20: a request to POST /api/reservations, GET /api/reservations/:id or
\* DELETE /api/reservations/:id calls the reservation RPC documented for it
\* (and so not CreateSession, GetSession or DeleteSession).
C20_ReservationEndpointsReachTheirRpc ==
  [][\A p \in Procs :
       procs[p].pc = "idle" =>
         \A req \in ReservationEndpointRequests :
           Http(p, req) => procs'[p].op = DocumentedRpc(req)]_vars

\* C21: a gateway request that carries no valid token never creates, changes
\* or deletes a session.
C21_SessionMutationsNeedToken ==
  [][\A p \in GatewayProcs :
       \/ sessions' = sessions
       \/ \A req \in HttpRequests : verifyToken(req.tok) \/ ~Http(p, req)]_vars

\* the requests under /api/reservations, /api/payments and
\* /api/notifications whose token is missing or fails verification
UnverifiedRequests ==
  {req \in HttpRequests :
     /\ req.mount \in {"/api/reservations", "/api/payments", "/api/notifications"}
     /\ req.tok \in {"", "bad"}}

\* C22: a request under /api/reservations, /api/payments or
\* /api/notifications without a token, or with a token that fails
\* verification, is answered with 401; no RPC is called, nothing is forwarded
\* and no store changes.
C22_UnverifiedIsRefused ==
  [][\A p \in GatewayProcs, req \in UnverifiedRequests :
       \/ /\ procs'[p].op = "none" /\ procs'[p].code = "Unauthenticated"
          /\ sessions' = sessions /\ reservations' = reservations
          /\ mongodb' = mongodb /\ kafka' = kafka
       \/ ~Http(p, req)]_vars

\* C22 happens: a request was refused with 401 while a session is stored.
C22_Witness ==
  /\ procs["p1"].op = "none" /\ procs["p1"].code = "Unauthenticated"
  /\ DOMAIN sessions # {}

C23_OnlyAdminChangesPlans ==
  [][\A p \in Procs :
       \/ mongodb'.plans = mongodb.plans
       \/ \A auth \in Auths :
            \/ auth # "" /\ Role(auth) = "admin"
            \/ /\ \A input \in PlanInputs : ~createSubscriptionPlan(p, input, auth)
               /\ \A id \in 1..MaxPlans, input \in PlanInputs :
                    ~updateSubscriptionPlan(p, id, input, auth)
               /\ \A id \in 1..MaxPlans : ~deleteSubscriptionPlan(p, id, auth)]_vars

\* no createSubscription is at work on the subscription s
Settled(s) ==
  \A p \in Procs :
    ~(procs[p].op = "createSubscription" /\ procs[p].pc # "idle"
      /\ procs[p].subscription.id = s)

\* C27: once createSubscription has returned or failed, a stored
\* subscription has its payment: paymentId names a stored, successful payment
\* whose subscriptionId names the subscription.
C27_SubscriptionHasItsPayment ==
  \A s \in DOMAIN mongodb.subscriptions :
    Settled(s) =>
      LET k == mongodb.subscriptions[s].paymentId IN
      /\ k \in DOMAIN mongodb.payments
      /\ mongodb.payments[k].subscriptionId = s
      /\ mongodb.payments[k].status = "successful"

\* the payments of the subscription s that processPayment has saved
Renewals(s) ==
  {k \in DOMAIN mongodb.payments :
     mongodb.payments[k].subscriptionId = s /\ k # mongodb.subscriptions[s].paymentId}

\* C28: when no resolver is at work, an active subscription whose plan
\* exists (duration d) ends d days after its start for its creation and d
\* days more for each processPayment that has completed.
C28_EveryPaymentExtends ==
  (\A p \in Procs : procs[p].pc = "idle") =>
    \A s \in DOMAIN mongodb.subscriptions :
      LET sub == mongodb.subscriptions[s] IN
      (sub.status = "active" /\ sub.subscriptionPlanId \in DOMAIN mongodb.plans) =>
        sub.endDate = sub.startDate
          + mongodb.plans[sub.subscriptionPlanId].duration * (1 + Cardinality(Renewals(s)))

\* a notification for the k-th message is stored
Stored(k) ==
  IF k > Len(kafka.topic) THEN FALSE
  ELSE \E n \in DOMAIN mongodb.notifications :
         /\ mongodb.notifications[n].data = kafka.topic[k]
         /\ mongodb.notifications[n].userId = kafka.topic[k].userId
\* the k-th message is an event of the payment service
Published(k) ==
  IF k > Len(kafka.topic) THEN FALSE ELSE kafka.topic[k] \in PaymentEvents

\* C24: every event of the payment service that is in the topic leads to a
\* stored notification for its userId, unless the mail or the save failed
\* for it.
C24_PaymentEventsAreNotified ==
  \A k \in 1..MaxMessages :
    Published(k)
      ~> \/ Stored(k)
         \/ /\ kafka.offset = k
            /\ procs["notification-group"].code \in {"EmailError", "SaveError"}

\* C30: eachMessage ends normally for every message: the offset moves on by
\* one and the consumer stays ready; a message that does not parse, an event
\* without a handler, and an event whose mail or save fails store no
\* notification; no stored notification and no message is touched again.
C30_FailuresAreContained ==
  [][\A c \in Consumers :
       kafka'.offset # kafka.offset =>
         LET msg == kafka.topic[kafka.offset + 1] IN
         /\ kafka'.offset = kafka.offset + 1
         /\ kafka'.topic = kafka.topic
         /\ procs'[c].pc = "idle"
         /\ (~Parses(msg) \/ msg.event \notin notificationHandlers)
              => mongodb' = mongodb
         /\ \A fault \in Faults \ {"none"} :
              eachMessage(c, fault) => mongodb' = mongodb
         /\ \A n \in DOMAIN mongodb.notifications :
              mongodb'.notifications[n] = mongodb.notifications[n]
         /\ Len(mongodb'.notifications) <= Len(mongodb.notifications) + 1]_vars

\* C30 happens: three messages are consumed; the first did not parse, the
\* mail or the save failed for the second or it had no handler, and the
\* third is stored.
C30_Witness ==
  /\ kafka.offset = 3
  /\ ~Parses(kafka.topic[1])
  /\ Parses(kafka.topic[2]) /\ ~Stored(2)
  /\ Parses(kafka.topic[3]) /\ Stored(3)
  /\ Len(mongodb.notifications) = 1

\* C26: GET /api/users/:id answers with the user document only when the
\* caller is an admin or the user with that id.
C26_OnlyAdminOrSelfReads ==
  \A p \in UserProcs :
    (procs[p].op = "getUserById" /\ procs[p].code = 200) =>
      \E u \in procs[p].input.user : u.role = "admin" \/ u.id = procs[p].input.id

\* C29: the role of a stored user changes only in a step of updateUserRole
\* that answers 200 to a caller whose role is admin; updateUser changes
\* neither role, email nor password of any user, and for a caller who is no
\* admin it changes no document but the caller's own.
C29_RoleChangesOnlyByAdmin ==
  [][\A p \in UserProcs :
       mongodb'.users # mongodb.users =>
         /\ \A id \in DOMAIN mongodb.users \cap DOMAIN mongodb'.users :
              mongodb'.users[id].role # mongodb.users[id].role =>
                /\ procs'[p].op = "updateUserRole" /\ procs'[p].code = 200
                /\ procs'[p].input.id = id
                /\ \E u \in procs'[p].input.user :
                     mongodb.users[u.id].role = "admin"
         /\ procs'[p].op = "updateUser" =>
              \/ /\ DOMAIN mongodb'.users = DOMAIN mongodb.users
                 /\ \A i \in DOMAIN mongodb.users :
                      /\ mongodb'.users[i].role = mongodb.users[i].role
                      /\ mongodb'.users[i].email = mongodb.users[i].email
                      /\ mongodb'.users[i].password = mongodb.users[i].password
                      /\ \A u \in procs'[p].input.user :
                           (mongodb.users[u.id].role # "admin" /\ i # u.id)
                             => mongodb'.users[i] = mongodb.users[i]
              \/ \A tok \in UserTokens, id \in UserIds, body \in UserBodies :
                   ~updateUser(p, tok, id, body)]_vars

\* C29 happens: the member A has changed its own first name with a body
\* that also carried a role, is still a member, and B, created as a member,
\* has been made an admin.
C29_Witness ==
  /\ {"A", "B"} \subseteq DOMAIN mongodb.users
  /\ mongodb.users["A"].firstName = "n2" /\ mongodb.users["A"].role = "member"
  /\ mongodb.users["B"].role = "admin"
  /\ procs["p1"].op = "updateUser" /\ procs["p1"].code = 200
  /\ procs["p1"].input.id = "A"
  /\ \E u \in procs["p1"].input.user : u.id = "A"
====
